---- MODULE Spec2Model ----
(***************************************************************************)
(* Model of tauri-migration/src-tauri/src/main.rs: the two streaming       *)
(* relays (research_stream, trade_stream), the raw quote accessor          *)
(* (trade_api), the startup launcher in main, and the Threshold Monitor    *)
(* described in the specification.                                         *)
(*                                                                         *)
(* A response body is a sequence of byte groups ("atoms"); each atom is    *)
(* written as the text it stands for.  Chunk boundaries fall between       *)
(* atoms.                                                                  *)
(***************************************************************************)
EXTENDS Integers, Sequences, FiniteSets, TLC

\* ------------------------------------------------------------------ bounds
MaxLines == 2
MaxChunks == 2

\* ------------------------------------------------------------------ atoms
RH == "{\"response\":"
DH == "{\"done\":"
DC == "{\"done\":true,\"response\":"
QA == "\"a\"}"
QB == "\"b\"}"
TR == "true}"
SP == " "
NL == "\n"
BAD == "<0xFF>"

Heads == {RH, DH, DC}
Tails == {QA, QB, TR}

\* The lines a body is made of.
TokenA == <<RH, QA>>
TokenB == <<RH, QB>>
DoneRec == <<DH, TR>>
DoneFrag == <<DC, QA>>
NeitherRec == <<DH, QA>>
Garbage == <<TR>>
Blank == <<SP>>
BadBytes == <<BAD>>

LineKinds == {TokenA, TokenB, DoneRec, DoneFrag, NeitherRec, Garbage, Blank, BadBytes}

RECURSIVE Join(_)
Join(ls) == IF ls = <<>> THEN <<>> ELSE Head(ls) \o <<NL>> \o Join(Tail(ls))

LineSeqs == UNION {[1..n -> LineKinds] : n \in 0..MaxLines}

\* The streams of the specification's testable properties 3, 4 and 5.
ExampleStreams == {<<TokenA, TokenB, DoneRec>>,
                   <<TokenB, DoneFrag, TokenA>>,
                   <<TokenA, Blank, Garbage, TokenB>>,
                   <<Blank, TokenA, Garbage, TokenB, DoneRec>>}

Bodies == {Join(ls) : ls \in LineSeqs \cup ExampleStreams}

\* ------------------------------------------------------------------ serde_json::Value
JNull == [t |-> "null", v |-> ""]
JTrue == [t |-> "bool", v |-> "true"]
JStr(x) == [t |-> "str", v |-> x]

TailValue(a) == IF a = QA THEN JStr("a") ELSE IF a = QB THEN JStr("b") ELSE JTrue

\* JSON whitespace between tokens is insignificant.
StripSP(line) == SelectSeq(line, LAMBDA c : c # SP)

\* serde_json::from_str::<Value>(line): ok is FALSE on a parse error; done and
\* response are json["done"] and json["response"] (Null when absent).
ParseJson(line) ==
    LET s == StripSP(line) IN
    IF Len(s) = 2 /\ s[1] \in Heads /\ s[2] \in Tails
    THEN [ok |-> TRUE,
          done |-> IF s[1] = DH THEN TailValue(s[2])
                   ELSE IF s[1] = DC THEN JTrue ELSE JNull,
          response |-> IF s[1] = DH THEN JNull ELSE TailValue(s[2])]
    ELSE [ok |-> FALSE, done |-> JNull, response |-> JNull]

\* str::trim
RECURSIVE TrimStart(_)
TrimStart(s) == IF s # <<>> /\ Head(s) = SP THEN TrimStart(Tail(s)) ELSE s

RECURSIVE TrimEnd(_)
TrimEnd(s) == IF s # <<>> /\ s[Len(s)] = SP THEN TrimEnd(SubSeq(s, 1, Len(s) - 1)) ELSE s

Trim(s) == TrimEnd(TrimStart(s))

\* str::lines: split on line feeds; no final empty line after a trailing one.
FirstNL(s) == IF \E i \in 1..Len(s) : s[i] = NL
              THEN CHOOSE i \in 1..Len(s) : s[i] = NL /\ \A j \in 1..(i - 1) : s[j] # NL
              ELSE 0

RECURSIVE Lines(_)
Lines(s) ==
    IF s = <<>> THEN <<>>
    ELSE LET i == FirstNL(s) IN
         IF i = 0 THEN <<s>>
         ELSE <<SubSeq(s, 1, i - 1)>> \o Lines(SubSeq(s, i + 1, Len(s)))

\* std::str::from_utf8(&bytes).is_ok()
Utf8Valid(bytes) == \A i \in 1..Len(bytes) : bytes[i] # BAD

\* ------------------------------------------------------------------ events
Ev(name, text) == [name |-> name, text |-> text, price |-> 0, change |-> 0]
PriceEv(p, c) == [name |-> "trade-price", text |-> "", price |-> p, change |-> c]

StartName(o) == IF o = "research" THEN "research-start" ELSE "trade-stream-start"
TokenName(o) == IF o = "research" THEN "research-token" ELSE "trade-token"
EndName(o) == IF o = "research" THEN "research-end" ELSE "trade-stream-end"

OkUnit == "Ok(())"
ErrOllama == "Err(Ollama not responding)"

\* ------------------------------------------------------------------ quote provider
Absent == [t |-> "absent", n |-> 0]
NotNum == [t |-> "str", n |-> 0]
Num(x) == [t |-> "num", n |-> x]

DefaultPrice == 25000
DefaultChange == 0

QuoteFailures == {[kind |-> k, price |-> Absent, change |-> Absent] :
                     k \in {"send_failed", "decode_failed"}}
QuoteDecoded == {[kind |-> "json", price |-> p, change |-> c] :
                     p \in {Absent, NotNum, Num(24000)}, c \in {Absent, NotNum, Num(2)}}
Quotes == QuoteFailures \cup QuoteDecoded

\* Value::as_f64 on the field reached by indexing
AsF64(f) == IF f.t = "num" THEN [some |-> TRUE, val |-> f.n] ELSE [some |-> FALSE, val |-> 0]

\* price_res: send().await.ok().and_then(json.ok())
PriceRes(q) == IF q.kind = "json" THEN [some |-> TRUE, val |-> q] ELSE [some |-> FALSE, val |-> q]

UnwrapOrZero(o, d) == IF o.some THEN o.val ELSE 0

UnwrapOr(o, d) == IF o.some THEN o.val ELSE d

QuotePrice(q) ==
    LET pr == PriceRes(q) IN
    UnwrapOr(IF pr.some THEN AsF64(pr.val.price) ELSE [some |-> FALSE, val |-> 0], DefaultPrice)

QuoteChange(q) ==
    LET pr == PriceRes(q) IN
    UnwrapOr(IF pr.some THEN AsF64(pr.val.change) ELSE [some |-> FALSE, val |-> 0], DefaultChange)

\* ------------------------------------------------------------------ state
\* The startup launcher: the spawned task, the setup closure, what they did.
VARIABLES tpc, spc, ollamaRunning, binDir, taskSpawns, setupSpawns, launchEvents,
          setupResult

launcherVars == <<tpc, spc, ollamaRunning, binDir, taskSpawns, setupSpawns, launchEvents,
                  setupResult>>

\* The Threshold Monitor.
VARIABLES mstate, samples, warnings, reloads, mpc

monitorVars == <<mstate, samples, warnings, reloads, mpc>>

\* ------------------------------------------------------------------ relay
VARIABLES op, subject, body, quote, pc, pos, chunks, lastItem, errSeen, events,
          result, generate, emitFailed, apiResult

soloVars == <<op, subject, body, quote, pc, pos, chunks, lastItem, errSeen, events,
              result, generate, emitFailed, apiResult>>

\* Invocations running at the same time against one window: each one's own
\* locals, and the emit calls the window received, in the order it received them.
VARIABLES sess, sink, iframeResult

sessionVars == <<sess, sink, iframeResult>>

relayVars == <<soloVars, sessionVars>>

\* What one line of a chunk does (the body of the for loop).
ProcessLineDefaultsFragment(line, o) ==
    IF Trim(line) = <<>> THEN [kind |-> "skip", ev |-> Ev("", "")]
    ELSE LET json == ParseJson(line) IN
         IF ~json.ok THEN [kind |-> "skip", ev |-> Ev("", "")]
         ELSE IF json.done = JTrue THEN [kind |-> "end", ev |-> Ev(EndName(o), "")]
         ELSE [kind |-> "token",
               ev |-> Ev(TokenName(o), IF json.response.t = "str" THEN json.response.v ELSE "")]

ProcessLineFragmentFirst(line, o) ==
    IF Trim(line) = <<>> THEN [kind |-> "skip", ev |-> Ev("", "")]
    ELSE LET json == ParseJson(line) IN
         IF ~json.ok THEN [kind |-> "skip", ev |-> Ev("", "")]
         ELSE IF json.response.t = "str"
              THEN [kind |-> "token", ev |-> Ev(TokenName(o), json.response.v)]
         ELSE IF json.done = JTrue THEN [kind |-> "end", ev |-> Ev(EndName(o), "")]
         ELSE [kind |-> "skip", ev |-> Ev("", "")]

ProcessLine(line, o) ==
    IF Trim(line) = <<>> THEN [kind |-> "skip", ev |-> Ev("", "")]
    ELSE LET json == ParseJson(line) IN
         IF ~json.ok THEN [kind |-> "skip", ev |-> Ev("", "")]
         ELSE IF json.done = JTrue THEN [kind |-> "end", ev |-> Ev(EndName(o), "")]
         ELSE IF json.response.t = "str"
              THEN [kind |-> "token", ev |-> Ev(TokenName(o), json.response.v)]
              ELSE [kind |-> "skip", ev |-> Ev("", "")]

\* for line in text.lines(): the events emitted, and whether the function returned.
RECURSIVE ProcessLinesDeferred(_, _)
ProcessLinesDeferred(lines, o) ==
    IF lines = <<>> THEN [events |-> <<>>, done |-> FALSE]
    ELSE LET r == ProcessLine(Head(lines), o) IN
         IF r.kind = "end" THEN [events |-> <<r.ev>>, done |-> TRUE]
         ELSE LET rest == ProcessLinesDeferred(Tail(lines), o) IN
              IF r.kind = "token"
              THEN [events |-> rest.events \o <<r.ev>>, done |-> rest.done]
              ELSE rest

RECURSIVE ProcessLines(_, _)
ProcessLines(lines, o) ==
    IF lines = <<>> THEN [events |-> <<>>, done |-> FALSE]
    ELSE LET r == ProcessLine(Head(lines), o) IN
         IF r.kind = "end" THEN [events |-> <<r.ev>>, done |-> TRUE]
         ELSE LET rest == ProcessLines(Tail(lines), o) IN
              IF r.kind = "token"
              THEN [events |-> <<r.ev>> \o rest.events, done |-> rest.done]
              ELSE rest

\* One item of the byte stream that arrived as Ok(bytes).
ProcessChunkLossy(bytes, o) ==
    ProcessLines(Lines(SelectSeq(bytes, LAMBDA c : c # BAD)), o)

ProcessChunk(bytes, o) ==
    IF Utf8Valid(bytes) THEN ProcessLines(Lines(bytes), o)
    ELSE [events |-> <<>>, done |-> FALSE]

\* window.emit(..).ok(): the emit calls made when those at the indexes in
\* fails return an error; the error is discarded and the next call is made.
EmitAbortOnFailure(evs, fails) ==
    IF fails = {} THEN evs
    ELSE SubSeq(evs, 1, CHOOSE i \in fails : \A j \in fails : i <= j)

EmitAll(evs, fails) == evs

\* The value returned when the function falls out of the if-let / while-let.
FallThroughAlwaysOk(o) == OkUnit

FallThrough(o) == IF o = "research" THEN ErrOllama ELSE OkUnit

\* The emit calls of one step that fail: any of them may.
FailSets(n) == SUBSET (1..n)

\* trade_stream, up to the trade-price event.
FetchQuoteSkipOnFailure ==
    /\ op = "trade" /\ pc = "quote"
    /\ IF quote.kind = "json"
       THEN \E F \in FailSets(1) :
              /\ events' = events \o EmitAll(<<PriceEv(QuotePrice(quote), QuoteChange(quote))>>, F)
              /\ emitFailed' = (emitFailed \/ F # {})
       ELSE UNCHANGED <<events, emitFailed>>
    /\ pc' = "generate"
    /\ UNCHANGED <<op, subject, body, quote, pos, chunks, lastItem, result, generate,
                   apiResult>>
    /\ UNCHANGED <<errSeen, sessionVars, launcherVars, monitorVars>>

FetchQuote ==
    /\ op = "trade" /\ pc = "quote"
    /\ \E F \in FailSets(1) :
         /\ events' = events \o EmitAll(<<PriceEv(QuotePrice(quote), QuoteChange(quote))>>, F)
         /\ emitFailed' = (emitFailed \/ F # {})
    /\ pc' = "generate"
    /\ UNCHANGED <<op, subject, body, quote, pos, chunks, lastItem, result, generate,
                   apiResult>>
    /\ UNCHANGED <<errSeen, sessionVars, launcherVars, monitorVars>>

\* The generate request and the start event.
SendGenerateStartFirst ==
    /\ pc = "generate"
    /\ \E outcome \in {"send_failed", "bad_status", "success"} :
         /\ generate' = outcome
         /\ \E F \in FailSets(1) :
              /\ events' = events \o EmitAll(<<Ev(StartName(op), subject)>>, F)
              /\ emitFailed' = (emitFailed \/ F # {})
         /\ IF outcome = "success"
            THEN pc' = "stream" /\ UNCHANGED result
            ELSE pc' = "returned" /\ result' = FallThrough(op)
    /\ UNCHANGED <<op, subject, body, quote, pos, chunks, lastItem, apiResult>>
    /\ UNCHANGED <<errSeen, sessionVars, launcherVars, monitorVars>>

SendGenerate ==
    /\ pc = "generate"
    /\ \E outcome \in {"send_failed", "bad_status", "success"} :
         /\ generate' = outcome
         /\ IF outcome = "success"
            THEN /\ \E F \in FailSets(1) :
                      /\ events' = events \o EmitAll(<<Ev(StartName(op), subject)>>, F)
                      /\ emitFailed' = (emitFailed \/ F # {})
                 /\ pc' = "stream"
                 /\ UNCHANGED result
            ELSE /\ pc' = "returned"
                 /\ result' = FallThrough(op)
                 /\ UNCHANGED <<events, emitFailed>>
    /\ UNCHANGED <<op, subject, body, quote, pos, chunks, lastItem, apiResult>>
    /\ UNCHANGED <<errSeen, sessionVars, launcherVars, monitorVars>>

\* stream.next() yields Some(Ok(bytes)): the next n atoms of the body.
StreamChunk ==
    /\ pc = "stream" /\ pos < Len(body)
    /\ Len(chunks) < MaxChunks
    /\ \E n \in 1..(Len(body) - pos) :
         /\ Len(chunks) = MaxChunks - 1 => n = Len(body) - pos
         /\ LET bytes == SubSeq(body, pos + 1, pos + n)
                r == ProcessChunk(bytes, op)
            IN /\ \E F \in FailSets(Len(r.events)) :
                    /\ events' = events \o EmitAll(r.events, F)
                    /\ emitFailed' = (emitFailed \/ F # {})
               /\ chunks' = Append(chunks, bytes)
               /\ lastItem' = "ok"
               /\ pos' = pos + n
               /\ IF r.done
                  THEN pc' = "returned" /\ result' = OkUnit
                  ELSE UNCHANGED <<pc, result>>
    /\ UNCHANGED <<op, subject, body, quote, generate, apiResult>>
    /\ UNCHANGED <<errSeen, sessionVars, launcherVars, monitorVars>>

\* stream.next() yields Some(Err(_)): the item is dropped.
StreamErr ==
    /\ pc = "stream"
    /\ lastItem' = "err"
    /\ errSeen' = TRUE
    /\ UNCHANGED <<op, subject, body, quote, pc, pos, chunks, events, result, generate,
                   emitFailed, apiResult>>
    /\ UNCHANGED <<sessionVars, launcherVars, monitorVars>>

\* stream.next() yields None: the transport closed.
StreamEnd ==
    /\ pc = "stream" /\ pos = Len(body)
    /\ pc' = "returned"
    /\ result' = FallThrough(op)
    /\ UNCHANGED <<op, subject, body, quote, pos, chunks, lastItem, events, generate,
                   emitFailed, apiResult>>
    /\ UNCHANGED <<errSeen, sessionVars, launcherVars, monitorVars>>

\* trade_api: the raw quote accessor.
ApiOutcome(q) ==
    IF q.kind = "send_failed" THEN "Err(Yahoo API failed)"
    ELSE IF q.kind = "decode_failed" THEN "Err(JSON parse failed)"
    ELSE "Ok(json)"

trade_api ==
    /\ apiResult = "none"
    /\ apiResult' = ApiOutcome(quote)
    /\ UNCHANGED <<op, subject, body, quote, pc, pos, chunks, lastItem, events, result,
                   generate, emitFailed>>
    /\ UNCHANGED <<errSeen, sessionVars, launcherVars, monitorVars>>

\* ------------------------------------------------------------------ concurrent invocations
Sids == {1, 2}

NoSessions == [s \in Sids |-> [op |-> "research", subject |-> "query", body |-> <<>>,
                                stream |-> <<>>,
                                pc |-> "returned", pos |-> 0, chunks |-> <<>>,
                                pending |-> <<>>, generate |-> "none", result |-> "none"]]

\* An invocation of command o whose generate response has body b, which the
\* byte stream will yield as the chunks of st, in order.
NewSession(o, b, st) ==
    [op |-> o, subject |-> IF o = "research" THEN "query" ELSE "NIFTY", body |-> b,
     stream |-> st,
     pc |-> IF o = "research" THEN "generate" ELSE "quote", pos |-> 0, chunks |-> <<>>,
     pending |-> <<>>, generate |-> "none", result |-> "none"]

\* What invocation s does with the chunk it was handed: it reads its own
\* locals only.
ChunkResultSharedDone(ss, s, bytes) ==
    IF \E t \in Sids \ {s} : ss[t].result = OkUnit
    THEN [events |-> <<Ev(EndName(ss[s].op), "")>>, done |-> TRUE]
    ELSE ProcessChunk(bytes, ss[s].op)

ChunkResult(ss, s, bytes) == ProcessChunk(bytes, ss[s].op)

\* The quote request of a trade_stream invocation; here the provider is down.
SessQuote(s) ==
    /\ sess[s].pc = "quote" /\ sess[s].pending = <<>>
    /\ \E q \in {x \in Quotes : x.kind = "send_failed"} :
         sess' = [sess EXCEPT ![s].pending = <<PriceEv(QuotePrice(q), QuoteChange(q))>>,
                              ![s].pc = "generate"]
    /\ UNCHANGED <<sink, iframeResult>>
    /\ UNCHANGED <<soloVars, launcherVars, monitorVars>>

SessGenerate(s) ==
    /\ sess[s].pc = "generate" /\ sess[s].pending = <<>>
    /\ \E outcome \in {"send_failed", "bad_status", "success"} :
         sess' = IF outcome = "success"
                 THEN [sess EXCEPT ![s].generate = outcome,
                                   ![s].pending = <<Ev(StartName(sess[s].op), sess[s].subject)>>,
                                   ![s].pc = "stream"]
                 ELSE [sess EXCEPT ![s].generate = outcome,
                                   ![s].pc = "returned",
                                   ![s].result = FallThrough(sess[s].op)]
    /\ UNCHANGED <<sink, iframeResult>>
    /\ UNCHANGED <<soloVars, launcherVars, monitorVars>>

\* stream.next().await resumes with the next chunk of the invocation's byte
\* stream, whatever bytes it holds and wherever it ends.
SessChunk(s) ==
    /\ sess[s].pc = "stream" /\ sess[s].pending = <<>>
    /\ sess[s].stream # <<>>
    /\ LET bytes == Head(sess[s].stream)
           r == ChunkResult(sess, s, bytes)
       IN sess' = [sess EXCEPT ![s].chunks = Append(@, bytes),
                               ![s].stream = Tail(@),
                               ![s].pos = @ + Len(bytes),
                               ![s].pending = r.events,
                               ![s].pc = IF r.done THEN "ending" ELSE "stream"]
    /\ UNCHANGED <<sink, iframeResult>>
    /\ UNCHANGED <<soloVars, launcherVars, monitorVars>>

\* One window.emit call of invocation s; the window may reject it, and .ok()
\* drops the outcome.
SessEmit(s) ==
    /\ sess[s].pending # <<>>
    /\ \E ok \in BOOLEAN :
         sink' = Append(sink, [sid |-> s, ev |-> Head(sess[s].pending), ok |-> ok])
    /\ sess' = [sess EXCEPT ![s].pending = Tail(@)]
    /\ UNCHANGED iframeResult
    /\ UNCHANGED <<soloVars, launcherVars, monitorVars>>

\* return Ok(()) after the end event.
SessReturnOk(s) ==
    /\ sess[s].pc = "ending" /\ sess[s].pending = <<>>
    /\ sess' = [sess EXCEPT ![s].pc = "returned", ![s].result = OkUnit]
    /\ UNCHANGED <<sink, iframeResult>>
    /\ UNCHANGED <<soloVars, launcherVars, monitorVars>>

\* stream.next() yields None.
SessEnd(s) ==
    /\ sess[s].pc = "stream" /\ sess[s].pending = <<>>
    /\ sess[s].stream = <<>>
    /\ sess' = [sess EXCEPT ![s].pc = "returned", ![s].result = FallThrough(sess[s].op)]
    /\ UNCHANGED <<sink, iframeResult>>
    /\ UNCHANGED <<soloVars, launcherVars, monitorVars>>

\* iframe_invoke(shim, window): one emit of iframe-call to the same window; a
\* failed emit is returned to the caller.
IframeSid == 0
Shims == {"shim-1"}
ErrEmit == "Err(Emit failed)"

iframe_invoke ==
    /\ iframeResult = "none"
    /\ \E shim \in Shims, ok \in BOOLEAN :
         /\ sink' = Append(sink, [sid |-> IframeSid, ev |-> Ev("iframe-call", shim), ok |-> ok])
         /\ iframeResult' = IF ok THEN OkUnit ELSE ErrEmit
    /\ UNCHANGED sess
    /\ UNCHANGED <<soloVars, launcherVars, monitorVars>>

InitSessions == sess = NoSessions /\ sink = <<>> /\ iframeResult = "none"

InitRelayWith(ops, bodies, quotes) ==
    /\ op \in ops
    /\ subject = IF op = "research" THEN "query" ELSE "NIFTY"
    /\ body \in bodies
    /\ quote \in quotes
    /\ pc = IF op = "research" THEN "generate" ELSE "quote"
    /\ pos = 0
    /\ chunks = <<>>
    /\ lastItem = "none"
    /\ errSeen = FALSE
    /\ events = <<>>
    /\ result = "none"
    /\ generate = "none"
    /\ emitFailed = FALSE
    /\ apiResult = "none"
    /\ InitSessions

\* ------------------------------------------------------------------ launcher (main, Windows build)
ServeSpec == "cmd /C start /B ollama serve"
PullSpec == "ollama pull llama3.2:3b"
BinMeiliSpec == "bin: cmd /C start /B meilisearch.exe"
BinN8nSpec == "bin: cmd /C start /B n8n.exe start --tunnel"
PathMeiliSpec == "cmd /C start /B meilisearch"

\* let _ = Command::new(..).spawn(): the step that follows a spawn call.
AfterSpawnPropagating(ok, next) == IF ok THEN next ELSE "aborted"

AfterSpawn(ok, next) == next

\* app.get_webview_window("main").unwrap(): without a window labelled main the
\* setup closure panics here, before the task is spawned or any spec is tried.
SetupPanic == "panicked: unwrap on None"

GetWindow ==
    /\ spc = "get_window"
    /\ \E main_window \in BOOLEAN :
         /\ spc' = IF main_window THEN "spawn_task" ELSE "panicked"
         /\ setupResult' = IF main_window THEN setupResult ELSE SetupPanic
    /\ UNCHANGED <<tpc, ollamaRunning, binDir, taskSpawns, setupSpawns, launchEvents>>
    /\ UNCHANGED <<relayVars, monitorVars>>

\* tauri::async_runtime::spawn(async move { .. })
SpawnTask ==
    /\ spc = "spawn_task"
    /\ spc' = "resolve_bin"
    /\ tpc' = "sleep2"
    /\ UNCHANGED <<ollamaRunning, binDir, taskSpawns, setupSpawns, launchEvents, setupResult>>
    /\ UNCHANGED <<relayVars, monitorVars>>

\* sleep(2 s), then the `ollama list` probe.
ProbeOllamaServeAlways ==
    /\ tpc = "sleep2"
    /\ \E probe \in {"no_output", "exit_failure", "exit_success"} :
         /\ ollamaRunning' = IF probe = "exit_success" THEN "yes" ELSE "no"
         /\ tpc' = "serve"
    /\ UNCHANGED <<spc, binDir, taskSpawns, setupSpawns, launchEvents, setupResult>>
    /\ UNCHANGED <<relayVars, monitorVars>>

ProbeOllama ==
    /\ tpc = "sleep2"
    /\ \E probe \in {"no_output", "exit_failure", "exit_success"} :
         /\ ollamaRunning' = IF probe = "exit_success" THEN "yes" ELSE "no"
         /\ tpc' = IF probe = "exit_success" THEN "pull" ELSE "serve"
    /\ UNCHANGED <<spc, binDir, taskSpawns, setupSpawns, launchEvents, setupResult>>
    /\ UNCHANGED <<relayVars, monitorVars>>

ServeOllama ==
    /\ tpc = "serve"
    /\ \E ok \in BOOLEAN :
         /\ taskSpawns' = Append(taskSpawns, [spec |-> ServeSpec, ok |-> ok])
         /\ tpc' = AfterSpawn(ok, "sleep3")
    /\ UNCHANGED <<spc, ollamaRunning, binDir, setupSpawns, launchEvents, setupResult>>
    /\ UNCHANGED <<relayVars, monitorVars>>

Sleep3 ==
    /\ tpc = "sleep3"
    /\ tpc' = "pull"
    /\ UNCHANGED <<spc, ollamaRunning, binDir, taskSpawns, setupSpawns, launchEvents,
                   setupResult>>
    /\ UNCHANGED <<relayVars, monitorVars>>

PullModel ==
    /\ tpc = "pull"
    /\ \E ok \in BOOLEAN :
         /\ taskSpawns' = Append(taskSpawns, [spec |-> PullSpec, ok |-> ok])
         /\ tpc' = AfterSpawn(ok, "ready")
    /\ UNCHANGED <<spc, ollamaRunning, binDir, setupSpawns, launchEvents, setupResult>>
    /\ UNCHANGED <<relayVars, monitorVars>>

EmitReady ==
    /\ tpc = "ready"
    /\ \E F \in SUBSET (1..2) :
         launchEvents' = launchEvents \o
             EmitAll(<<[name |-> "ollama-ready", ok |-> 1 \notin F],
                       [name |-> "backend-ready", ok |-> 2 \notin F]>>, F)
    /\ tpc' = "finished"
    /\ UNCHANGED <<spc, ollamaRunning, binDir, taskSpawns, setupSpawns, setupResult>>
    /\ UNCHANGED <<relayVars, monitorVars>>

\* app_local_data_dir() and bin_path.exists()
ResolveBin ==
    /\ spc = "resolve_bin"
    /\ \E dir \in {"unresolved", "no_bin", "has_bin"} :
         /\ binDir' = IF dir = "has_bin" THEN "present" ELSE "missing"
         /\ spc' = IF dir = "has_bin" THEN "bin_meili" ELSE "path_meili"
    /\ UNCHANGED <<tpc, ollamaRunning, taskSpawns, setupSpawns, launchEvents, setupResult>>
    /\ UNCHANGED <<relayVars, monitorVars>>

BinMeili ==
    /\ spc = "bin_meili"
    /\ \E ok \in BOOLEAN :
         /\ setupSpawns' = Append(setupSpawns, [spec |-> BinMeiliSpec, ok |-> ok])
         /\ spc' = AfterSpawn(ok, "bin_n8n")
    /\ UNCHANGED <<tpc, ollamaRunning, binDir, taskSpawns, launchEvents, setupResult>>
    /\ UNCHANGED <<relayVars, monitorVars>>

BinN8n ==
    /\ spc = "bin_n8n"
    /\ \E ok \in BOOLEAN :
         /\ setupSpawns' = Append(setupSpawns, [spec |-> BinN8nSpec, ok |-> ok])
         /\ spc' = AfterSpawn(ok, "path_meili")
    /\ UNCHANGED <<tpc, ollamaRunning, binDir, taskSpawns, launchEvents, setupResult>>
    /\ UNCHANGED <<relayVars, monitorVars>>

PathMeili ==
    /\ spc = "path_meili"
    /\ \E ok \in BOOLEAN :
         /\ setupSpawns' = Append(setupSpawns, [spec |-> PathMeiliSpec, ok |-> ok])
         /\ spc' = AfterSpawn(ok, "return")
    /\ UNCHANGED <<tpc, ollamaRunning, binDir, taskSpawns, launchEvents, setupResult>>
    /\ UNCHANGED <<relayVars, monitorVars>>

SetupReturn ==
    /\ spc = "return"
    /\ setupResult' = OkUnit
    /\ spc' = "done"
    /\ UNCHANGED <<tpc, ollamaRunning, binDir, taskSpawns, setupSpawns, launchEvents>>
    /\ UNCHANGED <<relayVars, monitorVars>>

InitLauncher ==
    /\ tpc = "not_spawned"
    /\ spc = "get_window"
    /\ ollamaRunning = "unknown"
    /\ binDir = "unknown"
    /\ taskSpawns = <<>>
    /\ setupSpawns = <<>>
    /\ launchEvents = <<>>
    /\ setupResult = "none"

LauncherNext ==
    \/ GetWindow \/ SpawnTask \/ ProbeOllama \/ ServeOllama \/ Sleep3 \/ PullModel \/ EmitReady
    \/ ResolveBin \/ BinMeili \/ BinN8n \/ PathMeili \/ SetupReturn

\* ------------------------------------------------------------------ Threshold Monitor
MaxTicks == 6
High == 100
Low == 90

NoSample == [ok |-> FALSE, bytes |-> 0]
Sample(b) == [ok |-> TRUE, bytes |-> b]
SampleValues == {NoSample} \cup {Sample(b) : b \in {50, 80, Low, 95, High, 105}}

\* One interval tick: the state, whether a warning is emitted, whether the loop goes on.
MonitorStepNoBand(st, smp) ==
    IF ~smp.ok THEN [state |-> st, warn |-> FALSE, alive |-> TRUE]
    ELSE IF st = "Armed" /\ smp.bytes > High
         THEN [state |-> "Triggered", warn |-> TRUE, alive |-> TRUE]
    ELSE IF st = "Triggered" /\ smp.bytes <= High
         THEN [state |-> "Armed", warn |-> FALSE, alive |-> TRUE]
    ELSE [state |-> st, warn |-> FALSE, alive |-> TRUE]

MonitorStepInclusive(st, smp) ==
    IF ~smp.ok THEN [state |-> st, warn |-> FALSE, alive |-> TRUE]
    ELSE IF st = "Armed" /\ smp.bytes >= High
         THEN [state |-> "Triggered", warn |-> TRUE, alive |-> TRUE]
    ELSE IF st = "Triggered" /\ smp.bytes < Low
         THEN [state |-> "Armed", warn |-> FALSE, alive |-> TRUE]
    ELSE [state |-> st, warn |-> FALSE, alive |-> TRUE]

MonitorStep(st, smp) ==
    IF ~smp.ok THEN [state |-> st, warn |-> FALSE, alive |-> TRUE]
    ELSE IF st = "Armed" /\ smp.bytes > High
         THEN [state |-> "Triggered", warn |-> TRUE, alive |-> TRUE]
    ELSE IF st = "Triggered" /\ smp.bytes < Low
         THEN [state |-> "Armed", warn |-> FALSE, alive |-> TRUE]
    ELSE [state |-> st, warn |-> FALSE, alive |-> TRUE]

Tick ==
    /\ mpc = "running"
    /\ Len(samples) < MaxTicks
    /\ \E smp \in SampleValues :
         LET r == MonitorStep(mstate, smp) IN
         /\ samples' = Append(samples, smp)
         /\ mstate' = r.state
         /\ warnings' = IF r.warn THEN Append(warnings, smp.bytes) ELSE warnings
         /\ reloads' = IF r.warn THEN reloads + 1 ELSE reloads
         /\ mpc' = IF r.alive THEN "running" ELSE "stopped"
    /\ UNCHANGED <<relayVars, launcherVars>>

InitMonitor ==
    /\ mstate = "Armed"
    /\ samples = <<>>
    /\ warnings = <<>>
    /\ reloads = 0
    /\ mpc = "running"

\* ------------------------------------------------------------------ specifications
vars == <<relayVars, launcherVars, monitorVars>>

RelayIdle == InitRelayWith({"research"}, {<<>>}, {q \in Quotes : q.kind = "send_failed"})

\* The relays, over every body and every way of cutting it into chunks.
Init ==
    /\ InitRelayWith({"research", "trade"}, Bodies, {q \in Quotes : q.kind = "send_failed"})
    /\ InitLauncher /\ InitMonitor

Next == FetchQuote \/ SendGenerate \/ StreamChunk \/ StreamErr \/ StreamEnd

Spec == Init /\ [][Next]_vars

\* trade_stream and trade_api against every answer of the quote provider.
QuoteBodies == {<<>>, Join(<<TokenA, DoneRec>>)}

InitQuote ==
    /\ InitRelayWith({"trade"}, QuoteBodies, Quotes)
    /\ InitLauncher /\ InitMonitor

NextQuote ==
    \/ FetchQuote \/ SendGenerate \/ StreamChunk \/ StreamErr \/ StreamEnd
    \/ trade_api

SpecQuote == InitQuote /\ [][NextQuote]_vars

\* Two invocations at once, interleaved at every await and every emit call,
\* with iframe_invoke called on the same window at any point and the window
\* free to reject any emit call. Each invocation is either command; the first
\* streams a token and the terminal record, the second a token only.
ConcBody(s) == IF s = 1 THEN Join(<<TokenA, DoneRec>>) ELSE Join(<<TokenB>>)

\* The ways the byte stream delivers a body here: whole, or cut once, at the
\* end of a line or inside a record, between its head and the rest of it.
ConcCuts(b) == {k \in 1..(Len(b) - 1) : b[k] \in {NL, RH, DH, DC}}

ConcStreams(b) ==
    {<<b>>} \cup {<<SubSeq(b, 1, k), SubSeq(b, k + 1, Len(b))>> : k \in ConcCuts(b)}

ConcSessions(s) ==
    {NewSession(o, ConcBody(s), st) : o \in {"research", "trade"}, st \in ConcStreams(ConcBody(s))}

InitConcurrent ==
    /\ op = "research" /\ subject = "query" /\ body = <<>>
    /\ quote \in {q \in Quotes : q.kind = "send_failed"}
    /\ pc = "returned" /\ pos = 0 /\ chunks = <<>> /\ lastItem = "none" /\ errSeen = FALSE
    /\ events = <<>> /\ result = "none" /\ generate = "none" /\ emitFailed = FALSE
    /\ apiResult = "none"
    /\ sess \in {f \in [Sids -> ConcSessions(1) \cup ConcSessions(2)] :
                    \A s \in Sids : f[s] \in ConcSessions(s)}
    /\ sink = <<>> /\ iframeResult = "none"
    /\ InitLauncher /\ InitMonitor

NextConcurrent ==
    \E s \in Sids :
        \/ SessQuote(s) \/ SessGenerate(s) \/ SessChunk(s) \/ SessEmit(s)
        \/ SessReturnOk(s) \/ SessEnd(s)
        \/ iframe_invoke

SpecConcurrent == InitConcurrent /\ [][NextConcurrent]_vars

\* The startup launcher.
InitLaunch == RelayIdle /\ InitLauncher /\ InitMonitor

NextLaunch == LauncherNext

SpecLauncher == InitLaunch /\ [][NextLaunch]_vars

\* The same, with the runtime running the setup closure and the spawned task
\* to their ends: every step of either is a sleep, a spawn call or an emit,
\* which return.
TaskNext == ProbeOllama \/ ServeOllama \/ Sleep3 \/ PullModel \/ EmitReady

SetupNext == GetWindow \/ SpawnTask \/ ResolveBin \/ BinMeili \/ BinN8n \/ PathMeili \/ SetupReturn

SpecLauncherLive ==
    InitLaunch /\ [][NextLaunch]_vars /\ WF_vars(TaskNext) /\ WF_vars(SetupNext)

\* The Threshold Monitor.
InitMon == RelayIdle /\ InitLauncher /\ InitMonitor

NextMon == Tick

SpecMonitor == InitMon /\ [][NextMon]_vars

\* ------------------------------------------------------------------ reading the run
\* The lines the relay loop was handed, in arrival order: the lines of every
\* chunk that was valid text.
RECURSIVE ArrivedLines(_)
ArrivedLines(h) ==
    IF h = <<>> THEN <<>>
    ELSE (IF Utf8Valid(Head(h)) THEN Lines(Head(h)) ELSE <<>>) \o ArrivedLines(Tail(h))

\* The records of the protocol, written out: a line is a record with a true
\* terminal marker, a record with a text fragment, or neither.
DoneRecords == {<<DH, TR>>, <<DC, QA>>, <<DC, QB>>, <<DC, TR>>}
FragmentRecords == {<<RH, QA>>, <<RH, QB>>}
CarriesDone(line) == StripSP(line) \in DoneRecords
CarriesFragment(line) == StripSP(line) \in FragmentRecords
FragmentOf(line) == IF StripSP(line)[2] = QA THEN "a" ELSE "b"

FirstDone(ls) == IF \E i \in 1..Len(ls) : CarriesDone(ls[i])
                 THEN CHOOSE i \in 1..Len(ls) :
                          CarriesDone(ls[i]) /\ \A j \in 1..(i - 1) : ~CarriesDone(ls[j])
                 ELSE Len(ls) + 1
DoneArrived == FirstDone(ArrivedLines(chunks)) <= Len(ArrivedLines(chunks))

\* The fragments of the fragment records that arrived before the first done record.
BeforeDone(ls) == SubSeq(ls, 1, FirstDone(ls) - 1)
ArrivedFragments(ls) ==
    LET fr == SelectSeq(BeforeDone(ls), CarriesFragment)
    IN [k \in 1..Len(fr) |-> FragmentOf(fr[k])]

RelayNames == {StartName(op), TokenName(op), EndName(op)}
RelayEvents == SelectSeq(events, LAMBDA e : e.name \in RelayNames)
TokenTexts(evs) ==
    LET tk == SelectSeq(evs, LAMBDA e : e.name = TokenName(op))
    IN [k \in 1..Len(tk) |-> tk[k].text]
Count(evs, name) == Len(SelectSeq(evs, LAMBDA e : e.name = name))

\* ------------------------------------------------------------------ claims

\* C1: the start/token/end events of one invocation are in strict arrival
\* order: once the stream is open there is exactly one start event and it is
\* first, every other event is a token or the end, the end event is the last
\* event the invocation ever emitted, and the token events are, one for one
\* and in order, the fragment records that arrived before the terminal one.
C1_StrictArrivalOrder ==
    LET re == RelayEvents IN
    /\ generate = "success" =>
          /\ Len(re) >= 1 /\ re[1] = Ev(StartName(op), subject)
          /\ Count(re, StartName(op)) = 1
    /\ \A i \in 1..Len(re) : re[i].name = EndName(op) => i = Len(re)
    /\ TokenTexts(re) = ArrivedFragments(ArrivedLines(chunks))

C1_Witness ==
    /\ pc = "returned" /\ Len(chunks) = 2
    /\ RelayEvents = <<Ev(StartName(op), subject), Ev(TokenName(op), "a"),
                       Ev(TokenName(op), "b"), Ev(EndName(op), "")>>

\* C2: research_stream returns success exactly when a done record was
\* processed; when the transport closes without one it has emitted no end
\* event and returns the failure "Ollama not responding".
C2_UnterminatedResearchFails ==
    (op = "research" /\ pc = "returned") =>
        /\ result = OkUnit <=> DoneArrived
        /\ ~DoneArrived => /\ result = ErrOllama
                           /\ Count(events, EndName(op)) = 0

C2_Witness ==
    /\ op = "research" /\ pc = "returned" /\ generate = "success"
    /\ pos = Len(body) /\ ~DoneArrived
    /\ RelayEvents = <<Ev("research-start", subject), Ev("research-token", "a")>>
    /\ result = ErrOllama

\* C3: trade_stream reports every whole-operation failure (request not sent,
\* status not a success, stream closed without a done record) as a failure
\* result, and never returns success without a terminal marker.
C3_TradeFailurePropagates ==
    (op = "trade" /\ pc = "returned" /\ ~DoneArrived) => result # OkUnit

\* C4: blank lines, non-JSON lines and records with neither a fragment nor a
\* true terminal marker are skipped: the events are those of the stream with
\* these lines taken out (the fragments of the token records in order up to
\* the first done record, then the end event if there is one), and the relay
\* returns only on a done record or when the transport closes.
IsRecord(line) == CarriesDone(line) \/ CarriesFragment(line)
C4_BadLinesSkipped ==
    LET ls == ArrivedLines(chunks)
        good == SelectSeq(ls, IsRecord)
        toks == ArrivedFragments(good)
        expect == [k \in 1..Len(toks) |-> Ev(TokenName(op), toks[k])]
                    \o (IF FirstDone(good) <= Len(good) THEN <<Ev(EndName(op), "")>> ELSE <<>>)
    IN /\ generate = "success" => RelayEvents = <<Ev(StartName(op), subject)>> \o expect
       /\ (pc = "returned" /\ generate = "success" /\ FirstDone(good) > Len(good))
             => pos = Len(body)

C4_Witness ==
    /\ pc = "returned" /\ Len(chunks) = 1
    /\ ArrivedLines(chunks) = <<TokenA, Blank, Garbage, TokenB>>
    /\ TokenTexts(RelayEvents) = <<"a", "b">>

\* C5: the emitted events and the result do not depend on where a body of
\* valid text is split into chunks: they are those of the same body delivered
\* whole, every complete line of it processed as one record.
C5_ChunkingIndependent ==
    (pc = "returned" /\ generate = "success" /\ Utf8Valid(body)) =>
        LET whole == ProcessChunk(body, op) IN
        /\ RelayEvents = <<Ev(StartName(op), subject)>> \o whole.events
        /\ result = IF whole.done THEN OkUnit ELSE FallThrough(op)

\* C10: emitting is best effort: when emit calls have failed, the emit calls
\* made are still the whole sequence the arrived stream calls for, and the
\* result is the one the stream calls for.
ExpectedEmits ==
    LET ls == ArrivedLines(chunks)
        toks == ArrivedFragments(ls)
    IN (IF op = "trade" /\ pc # "quote"
        THEN <<PriceEv(QuotePrice(quote), QuoteChange(quote))>> ELSE <<>>)
       \o (IF generate = "success" THEN <<Ev(StartName(op), subject)>> ELSE <<>>)
       \o [k \in 1..Len(toks) |-> Ev(TokenName(op), toks[k])]
       \o (IF DoneArrived THEN <<Ev(EndName(op), "")>> ELSE <<>>)

C10_EmitBestEffort ==
    emitFailed =>
        /\ events = ExpectedEmits
        /\ pc = "returned" =>
              result = IF DoneArrived THEN OkUnit
                       ELSE IF op = "research" THEN ErrOllama ELSE OkUnit
        /\ (pc = "returned" /\ generate = "success" /\ ~DoneArrived) => pos = Len(body)

C10_Witness ==
    /\ emitFailed /\ pc = "returned" /\ result = OkUnit
    /\ Count(events, TokenName(op)) = 2 /\ Count(events, EndName(op)) = 1

\* C6: when the quote request fails or its body does not decode, trade_stream
\* emits trade-price with price 25000.0 and change 0 and goes on to the
\* generate request, while trade_api returns an error for the same answer;
\* a field that is absent (or not a number) gets its own default, the other
\* field keeps its value.
QuoteFailed == quote.kind \in {"send_failed", "decode_failed"}

C6_FallbackAsymmetry ==
    /\ pc # "quote" =>
          /\ Len(events) >= 1 /\ events[1].name = "trade-price"
          /\ QuoteFailed => events[1].price = 25000 /\ events[1].change = 0
          /\ ~QuoteFailed =>
                /\ events[1].price = IF quote.price.t = "num" THEN quote.price.n ELSE 25000
                /\ events[1].change = IF quote.change.t = "num" THEN quote.change.n ELSE 0
    /\ pc = "returned" => generate # "none"
    /\ apiResult # "none" =>
          /\ quote.kind = "send_failed" <=> apiResult = "Err(Yahoo API failed)"
          /\ quote.kind = "decode_failed" <=> apiResult = "Err(JSON parse failed)"
          /\ ~QuoteFailed <=> apiResult = "Ok(json)"

C6_Witness ==
    /\ QuoteFailed /\ pc = "returned" /\ generate = "success"
    /\ events[1] = PriceEv(25000, 0)
    /\ apiResult \in {"Err(Yahoo API failed)", "Err(JSON parse failed)"}

C6_WitnessOneField ==
    /\ quote.kind = "json" /\ quote.price.t = "absent" /\ quote.change.t = "num"
    /\ pc = "generate" /\ events = <<PriceEv(25000, 2)>>

\* C7: every launch spec is attempted whatever happened to the earlier ones:
\* when the launcher has nothing left to do, the specs attempted are exactly
\* those whose own precondition held (serve: the probe did not succeed; the
\* two bin specs: the bin directory exists; pull and PATH MeiliSearch:
\* always), and setup returned Ok. Setup ends otherwise only by the panic on a
\* missing main window, which comes before every spawn call.
LauncherQuiet ==
    /\ tpc \notin {"not_spawned", "sleep2", "serve", "sleep3", "pull", "ready"}
    /\ spc \notin {"get_window", "panicked", "spawn_task", "resolve_bin", "bin_meili",
                   "bin_n8n", "path_meili", "return"}

SpecsOf(log) == [k \in 1..Len(log) |-> log[k].spec]

C7_LauncherIndependence ==
    /\ LauncherQuiet =>
        /\ SpecsOf(taskSpawns) =
              (IF ollamaRunning = "no" THEN <<ServeSpec>> ELSE <<>>) \o <<PullSpec>>
        /\ SpecsOf(setupSpawns) =
              (IF binDir = "present" THEN <<BinMeiliSpec, BinN8nSpec>> ELSE <<>>)
                 \o <<PathMeiliSpec>>
        /\ setupResult = OkUnit
    /\ setupResult \notin {"none", OkUnit} => taskSpawns = <<>> /\ setupSpawns = <<>>

C7_Witness ==
    /\ LauncherQuiet
    /\ taskSpawns = <<[spec |-> ServeSpec, ok |-> FALSE], [spec |-> PullSpec, ok |-> FALSE]>>
    /\ setupSpawns = <<[spec |-> BinMeiliSpec, ok |-> FALSE], [spec |-> BinN8nSpec, ok |-> FALSE],
                       [spec |-> PathMeiliSpec, ok |-> TRUE]>>

\* C8: the monitor emits one warning per excursion above the high watermark:
\* a tick warns exactly when its sample is strictly above high and either no
\* earlier sample was, or a sample strictly below low came since the last one
\* that was; for high 100 and low 90 the samples 50,105,95,105,80,105 give
\* exactly two warnings.
Above(i) == samples[i].ok /\ samples[i].bytes > 100
Below(i) == samples[i].ok /\ samples[i].bytes < 90
ExcursionStarts ==
    {i \in 1..Len(samples) :
        /\ Above(i)
        /\ \A k \in 1..(i - 1) :
              Above(k) => \E j \in (k + 1)..(i - 1) : Below(j)}

SpecSamples == <<Sample(50), Sample(105), Sample(95), Sample(105), Sample(80), Sample(105)>>

C8_OneWarningPerExcursion ==
    /\ Len(warnings) = Cardinality(ExcursionStarts)
    /\ reloads = Len(warnings)
    /\ mstate = "Triggered" <=>
          \E k \in 1..Len(samples) :
              Above(k) /\ \A j \in (k + 1)..Len(samples) : ~Below(j)
    /\ samples = SpecSamples => Len(warnings) = 2

C8_Witness == samples = SpecSamples /\ warnings = <<105, 105>> /\ mstate = "Triggered"

\* C9: while no sample has exceeded the high watermark (samples equal to it
\* and failed samples included) no warning has been emitted, and the loop is
\* still running.
C9_NoTriggerBelowThreshold ==
    (\A i \in 1..Len(samples) : ~samples[i].ok \/ samples[i].bytes <= 100) =>
        /\ warnings = <<>>
        /\ mstate = "Armed"
        /\ mpc = "running"

C9_Witness ==
    /\ Len(samples) = MaxTicks /\ warnings = <<>> /\ mpc = "running"
    /\ \E i \in 1..Len(samples) : samples[i] = Sample(100)
    /\ \E i \in 1..Len(samples) : samples[i] = NoSample

\* C11: a record whose terminal marker is true ends the relay: once one has
\* arrived the relay has returned success with exactly one end event, the
\* last event it emitted; the record is in the last chunk that was read (no
\* later chunk is read); and there are as many token events as fragment-only
\* records before it, so neither the record's own fragment nor any later line
\* of its chunk produced a token.
LastChunkLines == IF chunks = <<>> THEN <<>> ELSE ArrivedLines(<<chunks[Len(chunks)]>>)
EarlierLines == IF chunks = <<>> THEN <<>> ELSE ArrivedLines(SubSeq(chunks, 1, Len(chunks) - 1))

C11_DoneStopsRelay ==
    LET ls == ArrivedLines(chunks)
        fd == FirstDone(ls)
    IN DoneArrived =>
        /\ pc = "returned" /\ result = OkUnit
        /\ Count(events, EndName(op)) = 1
        /\ events[Len(events)] = Ev(EndName(op), "")
        /\ FirstDone(EarlierLines) > Len(EarlierLines)
        /\ Count(events, TokenName(op)) =
              Cardinality({i \in 1..(fd - 1) : CarriesFragment(ls[i])})

C11_Witness ==
    /\ pc = "returned" /\ result = OkUnit
    /\ ArrivedLines(chunks) = <<TokenB, DoneFrag, TokenA>>
    /\ LastChunkLines = <<DoneFrag, TokenA>>
    /\ RelayEvents = <<Ev(StartName(op), subject), Ev(TokenName(op), "b"), Ev(EndName(op), "")>>

\* C12: a chunk that is not valid text, and a stream item that is a transport
\* error, are skipped whole: the step that receives one emits nothing, leaves
\* the result alone and stays in the loop; and the events are always those of
\* the records of the valid chunks, earlier and later ones alike, in order.
ValidChunks == SelectSeq(chunks, LAMBDA c : \A i \in 1..Len(c) : c[i] # BAD)

RECURSIVE Flatten(_)
Flatten(h) == IF h = <<>> THEN <<>> ELSE Lines(Head(h)) \o Flatten(Tail(h))

SkippedItemStep ==
    \/ lastItem # "err" /\ lastItem' = "err"
    \/ /\ Len(chunks') = Len(chunks) + 1
       /\ \E i \in 1..Len(chunks'[Len(chunks')]) : chunks'[Len(chunks')][i] = BAD

C12_BadChunkSkipped ==
    /\ [][SkippedItemStep =>
            /\ events' = events /\ result' = result
            /\ pc = "stream" /\ pc' = "stream"]_vars
    /\ [](generate = "success" =>
            LET good == SelectSeq(Flatten(ValidChunks), IsRecord)
                toks == ArrivedFragments(good)
            IN RelayEvents =
                 <<Ev(StartName(op), subject)>>
                   \o [k \in 1..Len(toks) |-> Ev(TokenName(op), toks[k])]
                   \o (IF FirstDone(good) <= Len(good) THEN <<Ev(EndName(op), "")>> ELSE <<>>))

C12_Witness ==
    /\ errSeen /\ pc = "returned" /\ Len(chunks) = 2
    /\ chunks[1] = <<BAD, NL>>
    /\ RelayEvents = <<Ev(StartName(op), subject), Ev(TokenName(op), "a")>>

\* C14: the start event, carrying the query or symbol, is emitted when the
\* generate request has returned a success status and before any chunk is
\* read; an invocation whose request was not sent or was answered with
\* another status emits no start, token or end event and reads no chunk.
C14_StartOnlyOnSuccess ==
    /\ generate # "success" => RelayEvents = <<>> /\ chunks = <<>> /\ ~errSeen
    /\ (generate = "success" /\ chunks = <<>>) =>
          RelayEvents = <<[name |-> StartName(op), text |-> subject, price |-> 0, change |-> 0]>>
    /\ generate \in {"send_failed", "bad_status"} => pc = "returned"

C14_Witness ==
    /\ generate = "bad_status" /\ pc = "returned" /\ body # <<>>
    /\ RelayEvents = <<>>

C14_WitnessStart ==
    /\ generate = "success" /\ pc = "stream" /\ chunks = <<>> /\ body # <<>>
    /\ Count(events, StartName(op)) = 1

\* C15: a trade_stream invocation emits exactly one trade-price event, first
\* of all its events and before the generate request is issued, whatever the
\* quote provider answered and however the stream goes.
C15_OnePriceEventFirst ==
    op = "trade" =>
        /\ pc = "quote" => events = <<>> /\ generate = "none"
        /\ pc # "quote" =>
              /\ Count(events, "trade-price") = 1
              /\ events[1].name = "trade-price"
        /\ generate # "none" => Count(events, "trade-price") = 1

C15_Witness ==
    /\ op = "trade" /\ pc = "returned" /\ quote.kind = "decode_failed"
    /\ [k \in 1..Len(events) |-> events[k].name] =
          <<"trade-price", "trade-stream-start", "trade-token", "trade-stream-end">>

\* C16: the startup task attempts `ollama serve` at most once, and only when
\* the `ollama list` probe did not report success; whatever the probe and the
\* serve and pull spawn calls did, the task, once spawned, ends having emitted
\* ollama-ready and then backend-ready, once each, and it emits nothing else.
NamesOf(log) == [k \in 1..Len(log) |-> log[k].name]
ServeAttempts == Len(SelectSeq(taskSpawns, LAMBDA a : a.spec = ServeSpec))

C16_ServeOnceThenReady ==
    /\ [](/\ ServeAttempts <= 1
          /\ ServeAttempts = 1 => ollamaRunning = "no"
          /\ (ollamaRunning = "no" /\ tpc \in {"sleep3", "pull", "ready", "finished"})
                => ServeAttempts = 1
          /\ NamesOf(launchEvents) \in {<<>>, <<"ollama-ready", "backend-ready">>})
    /\ [](tpc # "not_spawned" =>
            <>[](NamesOf(launchEvents) = <<"ollama-ready", "backend-ready">>))

C16_Witness ==
    /\ tpc = "finished"
    /\ taskSpawns = <<[spec |-> ServeSpec, ok |-> FALSE], [spec |-> PullSpec, ok |-> FALSE]>>
    /\ NamesOf(launchEvents) = <<"ollama-ready", "backend-ready">>

\* C17: MeiliSearch is tried from PATH only if the bin directory does not
\* exist, so it is spawn-attempted at most once per startup.
MeiliAttempts ==
    Len(SelectSeq(setupSpawns, LAMBDA a : a.spec \in {BinMeiliSpec, PathMeiliSpec}))

C17_MeiliOnce ==
    /\ MeiliAttempts <= 1
    /\ (\E k \in 1..Len(setupSpawns) : setupSpawns[k].spec = PathMeiliSpec)
          => binDir = "missing"

\* C13: with two invocations running at once against one window, the emit
\* calls the window received from each invocation, followed by those the
\* invocation has yet to make for the chunk in hand, are its start, its
\* tokens in the order its own records arrived and its end, whichever of
\* the calls the window rejected; and each invocation's result is decided by
\* its own stream alone.
SinkOf(s) ==
    LET mine == SelectSeq(sink, LAMBDA e : e.sid = s)
    IN [k \in 1..Len(mine) |-> mine[k].ev]

OwnEmits(st) ==
    LET ls == ArrivedLines(st.chunks)
        toks == ArrivedFragments(ls)
    IN (IF st.op = "trade" /\ st.pc # "quote" THEN <<PriceEv(25000, 0)>> ELSE <<>>)
       \o (IF st.generate = "success" THEN <<Ev(StartName(st.op), st.subject)>> ELSE <<>>)
       \o [k \in 1..Len(toks) |-> Ev(TokenName(st.op), toks[k])]
       \o (IF FirstDone(ls) <= Len(ls) THEN <<Ev(EndName(st.op), "")>> ELSE <<>>)

C13_SessionsIsolated ==
    \A s \in Sids :
        LET st == sess[s]
            ls == ArrivedLines(st.chunks)
        IN /\ SinkOf(s) \o st.pending = OwnEmits(st)
           /\ st.pc = "returned" =>
                st.result = IF FirstDone(ls) <= Len(ls) THEN OkUnit
                            ELSE IF st.op = "research" THEN ErrOllama ELSE OkUnit
           /\ (st.pc = "returned" /\ st.generate = "success" /\ FirstDone(ls) > Len(ls))
                => st.pos = Len(st.body)

C13_Witness ==
    /\ \A s \in Sids : sess[s].pc = "returned" /\ sess[s].generate = "success"
    /\ sess[1].op = "research" /\ sess[2].op = "research"
    /\ [k \in 1..Len(sink) |-> sink[k].sid] = <<1, 2, 1, 2, 1>>
    /\ [k \in 1..Len(sink) |-> sink[k].ok] = <<TRUE, TRUE, FALSE, TRUE, TRUE>>
    /\ SinkOf(1) = <<Ev("research-start", "query"), Ev("research-token", "a"),
                     Ev("research-end", "")>>
    /\ SinkOf(2) = <<Ev("research-start", "query"), Ev("research-token", "b")>>

\* The same with the second invocation's token record cut in two: it loses
\* its token and fails, and the first is served as before.
C13_WitnessCut ==
    /\ \A s \in Sids : sess[s].pc = "returned" /\ sess[s].op = "research"
    /\ sess[2].chunks = <<<<RH>>, <<QB, NL>>>>
    /\ sess[1].result = OkUnit /\ sess[2].result = ErrOllama
    /\ [k \in 1..Len(sink) |-> sink[k].sid] = <<1, 2, 1, 1>>
    /\ SinkOf(2) = <<Ev("research-start", "query")>>

====
